---- MODULE Spec2Model ----
(***************************************************************************)
(* The auto-discovery client of memcached-elasticache (src/index.js, the   *)
(* Client class of lines 183-346): an outer client that wraps an inner     *)
(* memcached client, polls the configuration endpoint of the cluster and   *)
(* replaces the inner client when the set of nodes changed.                *)
(*                                                                         *)
(* JavaScript strings are sequences of one-character strings, so that      *)
(* split, the template literal and sort are computed as the code computes  *)
(* them.                                                                   *)
(***************************************************************************)
EXTENDS Naturals, Sequences, FiniteSets

(***************************************************************************)
(* Bounds of the model.                                                    *)
(***************************************************************************)
\* discovery cycles started after the one the constructor starts
MaxTicks == 1
\* what comes from outside the client besides the answers of the endpoint:
\* calls of forwarded methods, remove events that delete a node from the set
\* of nodes, exceptions thrown by the constructor of the inner client or by a
\* listener of autoDiscover
MaxInputs == 1
\* the engine versions a command is selected for on its own: 0.0.0 up to
\* MaxMajor.MaxMinor.MaxBugfix
MaxMajor == 2
MaxMinor == 5
MaxBugfix == 15
\* the most nodes in a response parsed on its own
MaxNodes == 3

(***************************************************************************)
(* Strings.                                                                *)
(***************************************************************************)
LF == "\n"
CR == "\r"
SP == " "
PIPE == "|"
COLON == ":"

\* the value undefined, which is no string: a sequence that is no sequence of
\* characters
Undefined == <<"undefined">>

\* numbers as parseInt gives them: <<n>> is the number n, <<>> is NaN
NaN == <<>>
Num(n) == <<n>>

\* the UTF-16 code unit of a character, which is what sort() compares
Code(c) ==
    CASE c = LF -> 10
      [] c = CR -> 13
      [] c = SP -> 32
      [] c = "0" -> 48
      [] c = "1" -> 49
      [] c = "2" -> 50
      [] c = "3" -> 51
      [] c = "4" -> 52
      [] c = "5" -> 53
      [] c = "6" -> 54
      [] c = "7" -> 55
      [] c = "8" -> 56
      [] c = "9" -> 57
      [] c = COLON -> 58
      [] c = "a" -> 97
      [] c = "b" -> 98
      [] c = "c" -> 99
      [] c = "d" -> 100
      [] c = "e" -> 101
      [] c = "f" -> 102
      [] c = "i" -> 105
      [] c = "n" -> 110
      [] c = "u" -> 117
      [] c = "x" -> 120
      [] c = PIPE -> 124

IsDigit(c) == c \in {"0", "1", "2", "3", "4", "5", "6", "7", "8", "9"}

DigitValue(c) == Code(c) - 48

\* String.prototype.split with a one-character separator
RECURSIVE Split(_, _)
Split(s, sep) ==
    IF \A i \in DOMAIN s : s[i] # sep
    THEN <<s>>
    ELSE LET i == CHOOSE k \in DOMAIN s :
                      /\ s[k] = sep
                      /\ \A j \in 1..(k - 1) : s[j] # sep
         IN  <<SubSeq(s, 1, i - 1)>> \o Split(SubSeq(s, i + 1, Len(s)), sep)

\* what a template literal makes of a value: a string stays what it is, the
\* value undefined becomes the nine characters of "undefined"
Str(v) ==
    IF v = Undefined
    THEN <<"u", "n", "d", "e", "f", "i", "n", "e", "d">>
    ELSE v

\* parts[i] of a JavaScript array (i counted from 0): undefined past the end
At(parts, i) == IF i + 1 \in DOMAIN parts THEN parts[i + 1] ELSE Undefined

\* s < t in the order of sort(): by code units, a proper prefix first
RECURSIVE StrLess(_, _)
StrLess(s, t) ==
    IF t = <<>> THEN FALSE
    ELSE IF s = <<>> THEN TRUE
    ELSE IF Code(Head(s)) # Code(Head(t)) THEN Code(Head(s)) < Code(Head(t))
    ELSE StrLess(Tail(s), Tail(t))

\* the sequence with x put before the first element greater than x
RECURSIVE Insert(_, _)
Insert(x, sorted) ==
    IF sorted = <<>> THEN <<x>>
    ELSE IF StrLess(x, Head(sorted)) THEN <<x>> \o sorted
    ELSE <<Head(sorted)>> \o Insert(x, Tail(sorted))

\* Array.prototype.sort without a comparator, on an array of strings
RECURSIVE Sort(_)
Sort(a) == IF a = <<>> THEN <<>> ELSE Insert(Head(a), Sort(Tail(a)))

\* the digits a string starts with, as a number
RECURSIVE DigitsValue(_, _)
DigitsValue(s, acc) ==
    IF s = <<>> \/ ~IsDigit(Head(s)) THEN acc
    ELSE DigitsValue(Tail(s), 10 * acc + DigitValue(Head(s)))

\* parseInt of a string of the model (no sign, no leading blanks in the inputs):
\* the number its leading digits spell, NaN when it starts with no digit
ParseInt(s) ==
    IF s = Undefined \/ s = <<>> \/ ~IsDigit(Head(s)) THEN NaN
    ELSE Num(DigitsValue(s, 0))

\* the comparisons of JavaScript with a number literal: every comparison with
\* NaN is false
JsGT(x, n) == x # NaN /\ x[1] > n
JsGE(x, n) == x # NaN /\ x[1] >= n
JsEQ(x, n) == x # NaN /\ x[1] = n

\* x > y of two numbers: false when one of them is NaN
JsGreater(x, y) == x # NaN /\ y # NaN /\ x[1] > y[1]

RECURSIVE JoinWith(_, _)
JoinWith(strs, sep) ==
    IF strs = <<>> THEN <<>>
    ELSE IF Len(strs) = 1 THEN strs[1]
    ELSE strs[1] \o <<sep>> \o JoinWith(Tail(strs), sep)

(***************************************************************************)
(* The inputs: the nodes, the responses of the configuration endpoint and  *)
(* the engine versions, as the tests build them.                           *)
(***************************************************************************)
DUMMY_NODE1 == [hostname |-> <<"a">>, address |-> <<"1">>, port |-> <<"7">>]
DUMMY_NODE2 == [hostname |-> <<"b">>, address |-> <<"2">>, port |-> <<"7">>]

\* the server location of a node
Location(node) == node.hostname \o <<COLON>> \o node.port

NodeEntry(node) == node.hostname \o <<PIPE>> \o node.address \o <<PIPE>> \o node.port

\* the response the endpoint sends for a configuration version and a list of nodes
ClusterResponse(version, nodes) ==
    version \o <<LF>>
            \o JoinWith([i \in DOMAIN nodes |-> NodeEntry(nodes[i])], SP)
            \o <<LF, CR, LF>>

WellFormedResponses ==
    { ClusterResponse(<<"0">>, <<DUMMY_NODE1>>),
      ClusterResponse(<<"1">>, <<DUMMY_NODE1, DUMMY_NODE2>>),
      ClusterResponse(<<"2">>, <<DUMMY_NODE2, DUMMY_NODE1>>) }

\* a response of one line, and a response whose only entry has two fields
OneLineResponse == <<"0">>
TwoFieldResponse == <<"0", LF, "a", PIPE, "1", LF>>

Responses == WellFormedResponses \cup {OneLineResponse, TwoFieldResponse}

VersionRecord(major, minor, bugfix) ==
    [major |-> major, minor |-> minor, bugfix |-> bugfix]

Versions ==
    { VersionRecord(<<"1">>, <<"4">>, <<"1", "3">>),
      VersionRecord(<<"1">>, <<"3">>, <<"1", "4">>),
      VersionRecord(<<"1">>, <<"3">>, <<"1", "5">>),
      VersionRecord(<<"0">>, <<"4">>, <<"1", "4">>),
      VersionRecord(<<"0">>, <<"5">>, <<"1", "5">>),
      VersionRecord(<<"1">>, <<"4">>, <<"1", "4">>),
      VersionRecord(<<"1">>, <<"4">>, <<"1", "5">>),
      VersionRecord(<<"1">>, <<"5">>, <<"0">>),
      VersionRecord(<<"2">>, <<"0">>, <<"0">>),
      VersionRecord(<<"x">>, <<"4">>, <<"1", "4">>),
      VersionRecord(<<"1">>, <<"4">>, Undefined) }

\* the decimal digits of a number, as the engine writes them
RECURSIVE Decimal(_)
Decimal(n) ==
    LET digit == <<"0", "1", "2", "3", "4", "5", "6", "7", "8", "9">>[(n % 10) + 1]
    IN  IF n < 10 THEN <<digit>> ELSE Decimal(n \div 10) \o <<digit>>

\* the version string of an engine and the record the endpoint answers
\* version() with: the string split at the dots
VersionString(major, minor, bugfix) ==
    Decimal(major) \o <<".">> \o Decimal(minor) \o <<".">> \o Decimal(bugfix)

VersionReplied(version) ==
    LET parts == Split(version, ".")
    IN  VersionRecord(At(parts, 0), At(parts, 1), At(parts, 2))

\* the server locations a client is constructed with
ServerLocations == {Location(DUMMY_NODE1)}

(***************************************************************************)
(* The pure parts of Client.                                               *)
(***************************************************************************)
GET_CLUSTER_COMMAND_OLD == "get AmazonElastiCache:cluster"
GET_CLUSTER_COMMAND_NEW == "config get cluster"

\* the selection of the command as a bug would have it: the bugfix has to be
\* greater than 14
ClusterCommand_StrictBugfix(version) ==
    LET major == ParseInt(version.major)
        minor == ParseInt(version.minor)
        bugfix == ParseInt(version.bugfix)
    IN  IF \/ JsGT(major, 1)
           \/ (JsEQ(major, 1) /\ JsGT(minor, 4))
           \/ (JsEQ(major, 1) /\ JsEQ(minor, 4) /\ JsGT(bugfix, 14))
        THEN GET_CLUSTER_COMMAND_NEW
        ELSE GET_CLUSTER_COMMAND_OLD

\* the command _getCluster selects for the version record of the endpoint
ClusterCommand(version) ==
    LET major == ParseInt(version.major)
        minor == ParseInt(version.minor)
        bugfix == ParseInt(version.bugfix)
    IN  IF \/ JsGT(major, 1)
           \/ (JsEQ(major, 1) /\ JsGT(minor, 4))
           \/ (JsEQ(major, 1) /\ JsEQ(minor, 4) /\ JsGE(bugfix, 14))
        THEN GET_CLUSTER_COMMAND_NEW
        ELSE GET_CLUSTER_COMMAND_OLD

\* one entry of the node line as a server location
EntryLocation(entry) ==
    LET parts == Split(entry, PIPE)
    IN  Str(At(parts, 0)) \o <<COLON>> \o Str(At(parts, 2))

\* _parseNodes as a bug would have it: the locations are left in the order of
\* the response
_parseNodes_Unsorted(data) ==
    LET lines == Split(data, LF)
    IN  IF At(lines, 1) = Undefined
        THEN [threw |-> TRUE, nodes |-> <<>>]
        ELSE LET entries == Split(At(lines, 1), SP)
             IN  [threw |-> FALSE,
                  nodes |-> [i \in DOMAIN entries |-> EntryLocation(entries[i])]]

\* _parseNodes as a bug would have it: a response without a second line is
\* taken for a cluster without nodes
_parseNodes_NoSecondLine(data) ==
    LET lines == Split(data, LF)
    IN  IF At(lines, 1) = Undefined
        THEN [threw |-> FALSE, nodes |-> <<>>]
        ELSE LET entries == Split(At(lines, 1), SP)
             IN  [threw |-> FALSE,
                  nodes |-> Sort([i \in DOMAIN entries |-> EntryLocation(entries[i])])]

\* _parseNodes: threw when lines[1] is undefined (split of undefined is a
\* TypeError), the sorted locations otherwise
_parseNodes(data) ==
    LET lines == Split(data, LF)
    IN  IF At(lines, 1) = Undefined
        THEN [threw |-> TRUE, nodes |-> <<>>]
        ELSE LET entries == Split(At(lines, 1), SP)
             IN  [threw |-> FALSE,
                  nodes |-> Sort([i \in DOMAIN entries |-> EntryLocation(entries[i])])]

\* _parseNodes and the selection of the command on every input of the model,
\* computed once
ParsedResponses == [data \in Responses |-> _parseNodes(data)]
ResponseLines == [data \in Responses |-> Len(Split(data, LF))]
SelectedCommands == [version \in Versions |-> ClusterCommand(version)]
IssuedCommands == {SelectedCommands[version] : version \in Versions}

\* the configuration version of a response: parseInt of its first line
ConfigVersion(data) == ParseInt(At(Split(data, LF), 0))

ConfigVersions == [data \in Responses |-> ConfigVersion(data)]

\* new Set(nodes)
NewSet(nodes) == {nodes[i] : i \in DOMAIN nodes}

\* _.isEqual of two Sets: the same size and the same members
IsEqual(s, t) == Cardinality(s) = Cardinality(t) /\ \A x \in s : x \in t

(***************************************************************************)
(* The state of one Client and of what it has constructed.                 *)
(***************************************************************************)
VARIABLES
    options,        \* the options given to the constructor
    _configEndpoint,
    _nodeSet,
    _innerClient,   \* the index in instances of the inner client
    _timer,         \* this._timer: "undefined", or "interval" for the handle
    timer,          \* this.timer, the property end() writes: "undefined" or "null"
    methods,        \* for each forwarded method, the instance it is bound to
    instances,      \* every Memcached instance constructed, in order
    intervalOn,     \* the interval of setInterval is scheduled in the event loop
    cycles,         \* every call of _getCluster, in order
    history,        \* what was called and raised so far, and what the cycle
                    \* that ended last did
    argument,       \* what a function of the client is applied to on its own
    result          \* <<>>, or <<v>> when the function has returned v

client == <<options, _configEndpoint, _nodeSet, _innerClient, _timer, timer,
            methods, instances, intervalOn, cycles, history>>

vars == <<options, _configEndpoint, _nodeSet, _innerClient, _timer, timer,
          methods, instances, intervalOn, cycles, history, argument, result>>

Methods ==
    { "touch", "get", "gets", "getMulti", "set", "replace", "add", "cas",
      "append", "prepend", "incr", "decr", "del", "version", "flush", "stats",
      "settings", "slabs", "items", "cachedump" }

NoInstance == 0

\* new Memcached(servers, ...): an open instance with nothing in flight
\* Its emit is its own: what it raises goes to the listeners registered on it.
NewMemcached(servers, probe) ==
    [servers |-> servers, probe |-> probe, endedBy |-> "none", pending |-> 0,
     emit |-> "own"]

\* this.emit.bind(this) assigned to the emit of an instance: what the
\* instance raises from then on goes to the listeners of the client
Passthrough(instance) == [instance EXCEPT !.emit = "client"]

\* instance.emit(name, details): what the listeners of the client are called
\* with, nothing when the emit of the instance is its own
Emit(instance, name, details) ==
    IF instance.emit = "client" THEN <<name, details>> ELSE <<>>

\* _createInnerClient as a bug would have it: the emit is replaced on the
\* first inner client only
CreateInnerClient_PassthroughOnce(insts, inner, meths, servers) ==
    LET new == Len(insts) + 1
        created == NewMemcached(servers, FALSE)
    IN  [instances |-> Append(insts, IF inner \in DOMAIN insts THEN created
                                     ELSE Passthrough(created)),
         innerClient |-> new,
         methods |-> [m \in Methods |-> new]]

\* instance.end(), called by the method by: the connections are closed, what
\* was in flight is cancelled
EndInstance(insts, i, by) ==
    [insts EXCEPT ![i] = [@ EXCEPT !.endedBy = IF @ = "none" THEN by ELSE @,
                                   !.pending = 0]]

\* _createInnerClient as a bug would have it: the previous inner client is ended
CreateInnerClient_EndsPrevious(insts, inner, meths, servers) ==
    LET new == Len(insts) + 1
        kept == IF inner \in DOMAIN insts
                THEN EndInstance(insts, inner, "_createInnerClient")
                ELSE insts
    IN  [instances |-> Append(kept, Passthrough(NewMemcached(servers, FALSE))),
         innerClient |-> new,
         methods |-> [m \in Methods |-> new]]

\* _createInnerClient as a bug would have it: get is bound once, by the constructor
CreateInnerClient_KeepsGet(insts, inner, meths, servers) ==
    LET new == Len(insts) + 1
    IN  [instances |-> Append(insts, Passthrough(NewMemcached(servers, FALSE))),
         innerClient |-> new,
         methods |-> [m \in Methods |->
                         IF m = "get" /\ inner \in DOMAIN insts THEN meths[m] ELSE new]]

\* _createInnerClient(servers): a new instance becomes the inner client and
\* every forwarded method is bound to it, and its emit is replaced by the emit
\* of the client; the previous one is left as it is
CreateInnerClient(insts, inner, meths, servers) ==
    LET new == Len(insts) + 1
    IN  [instances |-> Append(insts, Passthrough(NewMemcached(servers, FALSE))),
         innerClient |-> new,
         methods |-> [m \in Methods |-> new]]

\* no event of an inner client yet
NoEvent == [name |-> "none", details |-> <<>>, active |-> FALSE, received |-> <<>>]

\* a call of _getCluster: its probe, where it stands and the command it issued
NewCycle(probe) ==
    [configClient |-> probe, pc |-> "version", clusterCommand |-> "none"]

\* what is kept of the cycle that ended last: how the endpoint answered and
\* with what data, how the cycle ended, the events it emitted, whether the
\* nodes it found differed from the set of nodes, whether they repeated those
\* of the cycle that ended before it without a failure, whether in another
\* order on the wire, whether it built an inner client with a node that an
\* inner client had removed, and what its last step changed
NoCycle ==
    [response |-> "none", data |-> <<>>, outcome |-> "none", events |-> <<>>,
     differed |-> FALSE, repeats |-> "no", reordered |-> FALSE, readded |-> FALSE,
     notNewer |-> FALSE,
     touched |-> {}]

\* the first lines of _getCluster: a probe client is constructed for the
\* endpoint and asked for its version
StartCycle(insts, cycs, endpoint) ==
    [instances |-> Append(insts, NewMemcached(<<endpoint>>, TRUE)),
     cycles |-> Append(cycs, NewCycle(Len(insts) + 1))]

\* the constructor as a bug would have it: discovery starts whatever the option
Constructor_AlwaysDiscovers(configEndpoint, opts) ==
    LET created == CreateInnerClient(<<>>, NoInstance, [m \in Methods |-> NoInstance],
                                     <<configEndpoint>>)
        started == StartCycle(created.instances, <<>>, configEndpoint)
    IN  [_nodeSet |-> {}, _innerClient |-> created.innerClient,
         methods |-> created.methods, instances |-> started.instances,
         cycles |-> started.cycles, _timer |-> "interval", intervalOn |-> TRUE]

\* the constructor as a bug would have it: the interval is set, and the first
\* call of _getCluster is left to its first tick
Constructor_StartsNoCycle(configEndpoint, opts) ==
    LET created == CreateInnerClient(<<>>, NoInstance, [m \in Methods |-> NoInstance],
                                     <<configEndpoint>>)
    IN  [_nodeSet |-> {}, _innerClient |-> created.innerClient,
         methods |-> created.methods, instances |-> created.instances,
         cycles |-> <<>>,
         _timer |-> IF opts.autoDiscover THEN "interval" ELSE "undefined",
         intervalOn |-> opts.autoDiscover]

\* the constructor: the state of the client when new Client(...) returns
Constructor(configEndpoint, opts) ==
    LET created == CreateInnerClient(<<>>, NoInstance, [m \in Methods |-> NoInstance],
                                     <<configEndpoint>>)
        started == StartCycle(created.instances, <<>>, configEndpoint)
    IN  IF opts.autoDiscover
        THEN [_nodeSet |-> {}, _innerClient |-> created.innerClient,
              methods |-> created.methods, instances |-> started.instances,
              cycles |-> started.cycles, _timer |-> "interval", intervalOn |-> TRUE]
        ELSE [_nodeSet |-> {}, _innerClient |-> created.innerClient,
              methods |-> created.methods, instances |-> created.instances,
              cycles |-> <<>>, _timer |-> "undefined", intervalOn |-> FALSE]

\* the client as new Client(e, opts) has returned it
Constructed(e, opts) ==
    LET c == Constructor(e, opts)
    IN  /\ options = opts
        /\ _configEndpoint = e
        /\ _nodeSet = c._nodeSet
        /\ _innerClient = c._innerClient
        /\ _timer = c._timer
        /\ timer = "undefined"
        /\ methods = c.methods
        /\ instances = c.instances
        /\ intervalOn = c.intervalOn
        /\ cycles = c.cycles
        /\ history = [ticks |-> 0, inputs |-> 0, ended |-> FALSE,
                      startedAfterEnd |-> FALSE, misrouted |-> FALSE,
                      last |-> NoCycle, removed |-> {},
                      removedSince |-> FALSE, event |-> NoEvent]

Init ==
    /\ \E e \in ServerLocations, ad \in BOOLEAN, odr \in BOOLEAN :
           Constructed(e, [autoDiscover |-> ad, autoDiscoverOverridesRemove |-> odr])
    /\ argument = <<>>
    /\ result = <<>>

(***************************************************************************)
(* The operations.                                                         *)
(***************************************************************************)
\* autoDiscover as the client emits it, with what a listener sees at that
\* moment: the servers of the inner client and the set of nodes
AutoDiscover(payload, inner, insts, nodeSet) ==
    [name |-> "autoDiscover", payload |-> payload, servers |-> insts[inner].servers,
     nodeSet |-> nodeSet]

\* autoDiscoverFailure as the client emits it; the payload is the error
AutoDiscoverFailure ==
    [name |-> "autoDiscoverFailure", payload |-> <<>>, servers |-> <<>>,
     nodeSet |-> {}]

\* what a step changed of the set of nodes, the inner client, the bound
\* methods and the instances that are no probes
TouchedByStep ==
    {x \in {"_nodeSet", "_innerClient", "methods", "instances"} :
        CASE x = "_nodeSet" -> _nodeSet' # _nodeSet
          [] x = "_innerClient" -> _innerClient' # _innerClient
          [] x = "methods" -> methods' # methods
          [] x = "instances" ->
                \E i \in DOMAIN instances' :
                    /\ ~instances'[i].probe
                    /\ (i \notin DOMAIN instances \/ instances'[i] # instances[i])}

\* the handler of catch as a bug would have it: the error is swallowed
Catch_EmitsNothing(events, insts, configClient) ==
    [events |-> events,
     instances |-> EndInstance(insts, configClient, "_getCluster")]

\* the handler of catch as a bug would have it: the probe is left open
Catch_LeavesProbe(events, insts, configClient) ==
    [events |-> Append(events, AutoDiscoverFailure), instances |-> insts]

\* the handler of catch: autoDiscoverFailure is emitted, then the probe is ended
Catch(events, insts, configClient) ==
    [events |-> Append(events, AutoDiscoverFailure),
     instances |-> EndInstance(insts, configClient, "_getCluster")]

\* a cycle whose chain of handlers has run to its end
Done(cycle) == [cycle EXCEPT !.pc = "done", !.clusterCommand = "none"]

\* the data of the cycle that ended last, if it ended without a failure
PreviousData ==
    IF history.last.outcome \in {"swapped", "unchanged"} THEN history.last.data
    ELSE <<>>

\* the setInterval callback: _getCluster is called again
Tick ==
    /\ intervalOn
    /\ history.ticks < MaxTicks
    /\ LET started == StartCycle(instances, cycles, _configEndpoint)
       IN  /\ instances' = started.instances
           /\ cycles' = started.cycles
    /\ history' = [history EXCEPT !.ticks = @ + 1,
                                  !.startedAfterEnd = @ \/ history.ended]
    /\ UNCHANGED <<options, _configEndpoint, _nodeSet, _innerClient, _timer, timer,
                   methods, intervalOn>>

\* a callback of the probe is called with an error, that of version (at
\* "version") or that of the command (at "command"): the promise is rejected
\* and the handler of catch runs
ReplyError(c) ==
    /\ cycles[c].pc \in {"version", "command"}
    /\ UNCHANGED <<_nodeSet, _innerClient, methods>>
    /\ LET caught == Catch(<<>>, instances, cycles[c].configClient)
       IN  /\ instances' = caught.instances
           /\ cycles' = [cycles EXCEPT ![c] = Done(@)]
           /\ history' = [history EXCEPT
                              !.last = [NoCycle EXCEPT
                                            !.response = IF cycles[c].pc = "version"
                                                         THEN "versionError"
                                                         ELSE "commandError",
                                            !.outcome = "failed",
                                            !.events = caught.events,
                                            !.touched = TouchedByStep],
                              !.removedSince = FALSE]
    /\ UNCHANGED <<options, _configEndpoint, _timer, timer, intervalOn>>

\* the callback of configClient.version is called with a version record of
\* Versions: the handler chained to it issues the command selected for it
VersionReply(c, clusterCommand) ==
    /\ cycles[c].pc = "version"
    /\ clusterCommand \in IssuedCommands
    /\ cycles' = [cycles EXCEPT ![c] = [@ EXCEPT
                      !.pc = "command",
                      !.clusterCommand = clusterCommand]]
    /\ UNCHANGED <<options, _configEndpoint, _nodeSet, _innerClient, _timer, timer,
                   methods, instances, intervalOn, history>>

\* the handler of lines 282-292 as a bug would have it: the nodes are not
\* compared with the set of nodes, the inner client is replaced every time
Reconcile_AlwaysSwaps(nodes, nodeSet0, inner, insts, meths, ctorThrows, listenerThrows) ==
    LET nodeSet == NewSet(nodes)
        created == CreateInnerClient(insts, inner, meths, nodes)
    IN  IF ctorThrows
        THEN [threw |-> TRUE, _nodeSet |-> nodeSet, _innerClient |-> inner,
              instances |-> insts, methods |-> meths, events |-> <<>>]
        ELSE [threw |-> listenerThrows,
              _nodeSet |-> nodeSet,
              _innerClient |-> created.innerClient,
              instances |-> created.instances,
              methods |-> created.methods,
              events |-> <<AutoDiscover(nodes, created.innerClient,
                                        created.instances, nodeSet)>>]

\* the handler of lines 282-292 as a bug would have it: autoDiscover is
\* emitted before the inner client is replaced
Reconcile_EmitsFirst(nodes, nodeSet0, inner, insts, meths, ctorThrows, listenerThrows) ==
    LET nodeSet == NewSet(nodes)
        created == CreateInnerClient(insts, inner, meths, nodes)
    IN  IF IsEqual(nodeSet0, nodeSet)
        THEN [threw |-> FALSE, _nodeSet |-> nodeSet0, _innerClient |-> inner,
              instances |-> insts, methods |-> meths, events |-> <<>>]
        ELSE IF listenerThrows
        THEN [threw |-> TRUE, _nodeSet |-> nodeSet, _innerClient |-> inner,
              instances |-> insts, methods |-> meths,
              events |-> <<AutoDiscover(nodes, inner, insts, nodeSet)>>]
        ELSE [threw |-> ctorThrows,
              _nodeSet |-> nodeSet,
              _innerClient |-> IF ctorThrows THEN inner ELSE created.innerClient,
              instances |-> IF ctorThrows THEN insts ELSE created.instances,
              methods |-> IF ctorThrows THEN meths ELSE created.methods,
              events |-> <<AutoDiscover(nodes, inner, insts, nodeSet)>>]

\* the handler of lines 282-292, up to the end of the probe: what it leaves,
\* what it emitted and whether it threw. The constructor of the inner client
\* and the listeners of autoDiscover are not code of the client: whether they
\* throw is an input.
Reconcile(nodes, nodeSet0, inner, insts, meths, ctorThrows, listenerThrows) ==
    LET nodeSet == NewSet(nodes)
        created == CreateInnerClient(insts, inner, meths, nodes)
    IN  IF IsEqual(nodeSet0, nodeSet)
        THEN [threw |-> FALSE, _nodeSet |-> nodeSet0, _innerClient |-> inner,
              instances |-> insts, methods |-> meths, events |-> <<>>]
        ELSE IF ctorThrows
        THEN [threw |-> TRUE, _nodeSet |-> nodeSet, _innerClient |-> inner,
              instances |-> insts, methods |-> meths, events |-> <<>>]
        ELSE [threw |-> listenerThrows,
              _nodeSet |-> nodeSet,
              _innerClient |-> created.innerClient,
              instances |-> created.instances,
              methods |-> created.methods,
              events |-> <<AutoDiscover(nodes, created.innerClient,
                                        created.instances, nodeSet)>>]

\* the callback of the cluster command is called with the response and the
\* handlers chained to it run: the response is parsed, the nodes are compared
\* with the set of nodes, and the probe is ended; whatever is thrown on the
\* way is caught
CommandReply(c, data, ctorThrows, listenerThrows) ==
    /\ cycles[c].pc = "command"
    /\ (ctorThrows \/ listenerThrows) =>
           /\ history.inputs < MaxInputs
           /\ ~ParsedResponses[data].threw
           /\ ~IsEqual(_nodeSet, NewSet(ParsedResponses[data].nodes))
    /\ LET parsed == ParsedResponses[data]
           discovered == NewSet(parsed.nodes)
           r == IF parsed.threw
                THEN [threw |-> TRUE, _nodeSet |-> _nodeSet,
                      _innerClient |-> _innerClient, instances |-> instances,
                      methods |-> methods, events |-> <<>>]
                ELSE Reconcile(parsed.nodes, _nodeSet, _innerClient, instances,
                               methods, ctorThrows, listenerThrows)
           finished ==
                IF r.threw
                THEN Catch(r.events, r.instances, cycles[c].configClient)
                ELSE [events |-> r.events,
                      instances |-> EndInstance(r.instances, cycles[c].configClient,
                                                "_getCluster")]
           repeated ==
                /\ ~parsed.threw
                /\ PreviousData # <<>>
                /\ NewSet(ParsedResponses[PreviousData].nodes) = discovered
       IN  /\ _nodeSet' = r._nodeSet
           /\ _innerClient' = r._innerClient
           /\ methods' = r.methods
           /\ instances' = finished.instances
           /\ cycles' = [cycles EXCEPT ![c] = Done(@)]
           /\ history' = [history EXCEPT
                              !.last = [response |-> "data",
                                        data |-> data,
                                        outcome |-> IF r.threw THEN "failed"
                                                    ELSE IF r._innerClient # _innerClient
                                                    THEN "swapped" ELSE "unchanged",
                                        events |-> finished.events,
                                        differed |-> ~parsed.threw /\ discovered # _nodeSet,
                                        repeats |-> IF ~repeated THEN "no"
                                                    ELSE IF history.removedSince
                                                    THEN "afterRemove" ELSE "yes",
                                        reordered |-> repeated /\ PreviousData # data,
                                        readded |-> /\ r._innerClient # _innerClient
                                                    /\ discovered \cap history.removed # {},
                                        notNewer |-> /\ ~parsed.threw
                                                     /\ history.last.outcome = "swapped"
                                                     /\ ~JsGreater(
                                                            ConfigVersions[data],
                                                            ConfigVersions[history.last.data]),
                                        touched |-> TouchedByStep],
                              !.removedSince = FALSE,
                              !.inputs = IF r.threw /\ ~parsed.threw THEN @ + 1 ELSE @]
    /\ UNCHANGED <<options, _configEndpoint, _timer, timer, intervalOn>>

\* what end() reads and writes
EndState ==
    [_timer |-> _timer, timer |-> timer, intervalOn |-> intervalOn,
     _innerClient |-> _innerClient, instances |-> instances, threw |-> FALSE]

\* end() as a bug would have it: the interval is left running
End_KeepsInterval(st) ==
    IF st._innerClient = NoInstance
    THEN [st EXCEPT !.threw = TRUE]
    ELSE [st EXCEPT !.instances = EndInstance(st.instances, st._innerClient, "end"),
                    !.threw = FALSE]

\* end() as a bug would have it: the reference to the inner client is dropped
End_DropsInner(st) ==
    LET stopped == IF st._timer # "undefined"
                   THEN [st EXCEPT !.intervalOn = FALSE, !.timer = "null"]
                   ELSE st
    IN  IF stopped._innerClient = NoInstance
        THEN [stopped EXCEPT !.threw = TRUE]
        ELSE [stopped EXCEPT
                  !.instances = EndInstance(stopped.instances, stopped._innerClient,
                                            "end"),
                  !._innerClient = NoInstance,
                  !.threw = FALSE]

\* end(): clearInterval when this._timer is set (null is then written to
\* this.timer, this._timer keeps the handle), and the inner client is ended;
\* calling end of undefined would throw
End(st) ==
    LET stopped == IF st._timer # "undefined"
                   THEN [st EXCEPT !.intervalOn = FALSE, !.timer = "null"]
                   ELSE st
    IN  IF stopped._innerClient = NoInstance
        THEN [stopped EXCEPT !.threw = TRUE]
        ELSE [stopped EXCEPT
                  !.instances = EndInstance(stopped.instances, stopped._innerClient,
                                            "end"),
                  !.threw = FALSE]

\* a call of end() on the client
CallEnd ==
    /\ LET st == End(EndState)
       IN  /\ _timer' = st._timer
           /\ timer' = st.timer
           /\ intervalOn' = st.intervalOn
           /\ _innerClient' = st._innerClient
           /\ instances' = st.instances
    /\ history' = [history EXCEPT !.ended = TRUE]
    /\ UNCHANGED <<options, _configEndpoint, _nodeSet, methods, cycles>>

\* a forwarded method as a bug would have it: bound once, to the instance
\* the constructor created
Dispatch_ConstructorClient(meths, m) == IF m \in Methods THEN 1 ELSE meths[m]

\* the instance a call of a forwarded method on the client goes to
Dispatch(meths, m) == meths[m]

\* a call of a forwarded method on the client, one that is bound to instance
\* i: the operation runs on i, at once
Call(i) ==
    /\ history.inputs < MaxInputs
    /\ i # NoInstance
    /\ instances' = [instances EXCEPT ![i].pending = @ + 1]
    /\ history' = [history EXCEPT !.inputs = @ + 1,
                                  !.misrouted = @ \/ i # _innerClient]
    /\ UNCHANGED <<options, _configEndpoint, _nodeSet, _innerClient, _timer, timer,
                   methods, intervalOn, cycles>>

\* an operation in flight on an instance completes: its callback fires
Complete(i) ==
    /\ instances[i].pending > 0
    /\ instances' = [instances EXCEPT ![i].pending = @ - 1]
    /\ UNCHANGED <<options, _configEndpoint, _nodeSet, _innerClient, _timer, timer,
                   methods, intervalOn, cycles, history>>

\* the listener of remove as a bug would have it: it is registered whatever
\* the option says
OnRemove_IgnoresOption(opts, nodeSet, server) == nodeSet \ {server}

\* the listener of remove as a bug would have it: the node is left in the set
\* of nodes
OnRemove_KeepsNode(opts, nodeSet, server) == nodeSet

\* the listener of remove the constructor registers when
\* autoDiscoverOverridesRemove is set
OnRemove(opts, nodeSet, server) ==
    IF opts.autoDiscoverOverridesRemove THEN nodeSet \ {server} ELSE nodeSet

\* an inner client, the current one or an earlier one, removes one of its
\* servers and raises remove: its emit is the emit of the client. The history
\* keeps the servers the inner client of the moment has removed, and the
\* event when it is the inner client of the moment that raises it.
RemoveEvent(i, server) ==
    /\ ~instances[i].probe
    /\ server \in NewSet(instances[i].servers)
    /\ history.inputs < MaxInputs
    /\ LET received == Emit(instances[i], "remove", server)
       IN  /\ _nodeSet' = IF received # <<>>
                          THEN OnRemove(options, _nodeSet, received[2])
                          ELSE _nodeSet
           /\ history' = [history EXCEPT
                              !.inputs = @ + 1,
                              !.removed = IF i = _innerClient THEN @ \cup {server}
                                          ELSE @,
                              !.removedSince =
                                    @ \/ /\ options.autoDiscoverOverridesRemove
                                         /\ received # <<>>
                                         /\ server \in _nodeSet,
                              !.event = IF i = _innerClient
                                        THEN [name |-> "remove", details |-> server,
                                              active |-> TRUE, received |-> received]
                                        ELSE @]
    /\ UNCHANGED <<options, _configEndpoint, _innerClient, _timer, timer, methods,
                   instances, intervalOn, cycles>>

\* the inner client raises issue for one of its servers; the client has no
\* listener of its own for it
IssueEvent(i, server) ==
    /\ i = _innerClient
    /\ server \in NewSet(instances[i].servers)
    /\ history.inputs < MaxInputs
    /\ history' = [history EXCEPT
                       !.inputs = @ + 1,
                       !.event = [name |-> "issue", details |-> server,
                                  active |-> TRUE,
                                  received |-> Emit(instances[i], "issue", server)]]
    /\ UNCHANGED <<options, _configEndpoint, _nodeSet, _innerClient, _timer, timer,
                   methods, instances, intervalOn, cycles>>

\* what throws in the handler of lines 282-292: nothing, the constructor of
\* the inner client, or a listener of autoDiscover, which runs only when the
\* constructor has returned
Throws ==
    { [constructor |-> FALSE, listener |-> FALSE],
      [constructor |-> TRUE, listener |-> FALSE],
      [constructor |-> FALSE, listener |-> TRUE] }

Next ==
    \/ Tick /\ UNCHANGED <<argument, result>>
    \/ \E c \in DOMAIN cycles : ReplyError(c) /\ UNCHANGED <<argument, result>>
    \/ \E c \in DOMAIN cycles, clusterCommand \in IssuedCommands :
           VersionReply(c, clusterCommand) /\ UNCHANGED <<argument, result>>
    \/ \E c \in DOMAIN cycles, data \in Responses, throws \in Throws :
           /\ CommandReply(c, data, throws.constructor, throws.listener)
           /\ UNCHANGED <<argument, result>>
    \/ CallEnd /\ UNCHANGED <<argument, result>>
    \/ \E i \in {Dispatch(methods, m) : m \in Methods} :
           Call(i) /\ UNCHANGED <<argument, result>>
    \/ \E i \in DOMAIN instances : Complete(i) /\ UNCHANGED <<argument, result>>
    \/ \E i \in DOMAIN instances : \E server \in NewSet(instances[i].servers) :
           RemoveEvent(i, server) /\ UNCHANGED <<argument, result>>
    \/ \E i \in DOMAIN instances : \E server \in NewSet(instances[i].servers) :
           IssueEvent(i, server) /\ UNCHANGED <<argument, result>>

Spec == Init /\ [][Next]_vars

\* a callback of the probe of cycle c is called, with an error or with an
\* answer
Reply(c) ==
    /\ c \in DOMAIN cycles
    /\ \/ ReplyError(c)
       \/ \E clusterCommand \in IssuedCommands : VersionReply(c, clusterCommand)
       \/ \E data \in Responses, throws \in Throws :
              CommandReply(c, data, throws.constructor, throws.listener)
    /\ UNCHANGED <<argument, result>>

\* the client when the probe of every cycle calls back in the end: the
\* library calls the callback of version() and of command() with an answer
\* or, once its retries have timed out, with an error
\* The steps are those of the discovery: the ticks of the interval, the
\* callbacks of the probes and end(); the calls of the forwarded methods and
\* the events of the inner clients touch neither a cycle nor a probe.
NextDiscovery ==
    \/ Tick /\ UNCHANGED <<argument, result>>
    \/ \E c \in DOMAIN cycles : Reply(c)
    \/ CallEnd /\ UNCHANGED <<argument, result>>

SpecCallbacksFire ==
    /\ Init
    /\ [][NextDiscovery]_vars
    /\ WF_vars(\E c \in DOMAIN cycles : Reply(c))

(***************************************************************************)
(* The selection of the command on its own: the endpoint reports a version *)
(* and the handler of version() selects the command.                       *)
(***************************************************************************)
\* a client without auto-discovery, which the functions applied on their own
\* leave as it is
ClientAside ==
    Constructed(Location(DUMMY_NODE1),
                [autoDiscover |-> FALSE, autoDiscoverOverridesRemove |-> FALSE])

InitClusterCommand ==
    /\ ClientAside
    /\ argument \in [major : 0..MaxMajor, minor : 0..MaxMinor, bugfix : 0..MaxBugfix]
    /\ result = <<>>

\* the endpoint answers version() with the record of its version, and the
\* handler selects the command
SelectClusterCommand ==
    /\ result = <<>>
    /\ result' = <<ClusterCommand(VersionReplied(
                       VersionString(argument.major, argument.minor, argument.bugfix)))>>
    /\ UNCHANGED <<client, argument>>

NextClusterCommand == SelectClusterCommand

SpecClusterCommand == InitClusterCommand /\ [][NextClusterCommand]_vars

(***************************************************************************)
(* The selection of the command for the version records an endpoint can    *)
(* answer with, well-formed or not.                                        *)
(***************************************************************************)
\* what a field of a version record can be: digits, a string without a
\* digit, or undefined
VersionFields == { <<"0">>, <<"1">>, <<"4">>, <<"1", "4">>, <<"x">>, Undefined }

InitVersionReply ==
    /\ ClientAside
    /\ argument \in [major : VersionFields, minor : VersionFields,
                     bugfix : VersionFields]
    /\ result = <<>>

\* the callback of version() is called with the record, and the handler
\* selects the command
SelectForRecord ==
    /\ result = <<>>
    /\ result' = <<ClusterCommand(argument)>>
    /\ UNCHANGED <<client, argument>>

NextVersionReply == SelectForRecord

SpecVersionReply == InitVersionReply /\ [][NextVersionReply]_vars

(***************************************************************************)
(* _parseNodes on its own: the endpoint sends the response for a list of   *)
(* nodes and _parseNodes is applied to it.                                 *)
(***************************************************************************)
\* the nodes of the responses: those of the tests, a node on the host of the
\* first with another address and port, and a node whose hostname starts
\* with the hostname of the first
NodePool ==
    { DUMMY_NODE1, DUMMY_NODE2,
      [hostname |-> <<"a">>, address |-> <<"3">>, port |-> <<"8">>],
      [hostname |-> <<"a", "b">>, address |-> <<"4">>, port |-> <<"7">>] }

NodeLists == UNION {[1..n -> NodePool] : n \in 1..MaxNodes}

InitParseNodes ==
    /\ ClientAside
    /\ argument \in [version : {<<"1", "2">>}, nodes : NodeLists]
    /\ result = <<>>

\* the endpoint answers the command with the response for its nodes, and
\* _parseNodes is applied to the response
ParseNodes ==
    /\ result = <<>>
    /\ result' = <<_parseNodes(ClusterResponse(argument.version, argument.nodes))>>
    /\ UNCHANGED <<client, argument>>

NextParseNodes == ParseNodes

SpecParseNodes == InitParseNodes /\ [][NextParseNodes]_vars

C2_FailureLeavesState ==
    LET cycle == history.last
    IN  (\/ cycle.response \in {"versionError", "commandError"}
         \/ (cycle.response = "data" /\ ResponseLines[cycle.data] < 2)) =>
            /\ cycle.outcome = "failed"
            /\ cycle.events = <<AutoDiscoverFailure>>
            /\ cycle.touched = {}

\* C2, its case: a cycle has ended on a response of one line after an inner
\* client was built from discovered nodes
C2_Witness ==
    /\ history.last.response = "data"
    /\ ResponseLines[history.last.data] < 2
    /\ _nodeSet # {}
    /\ _innerClient # 1

\* C3 (as the spec has it): at most one cycle is in flight at any time
C3_AtMostOneCycleInFlight ==
    Cardinality({c \in DOMAIN cycles : cycles[c].pc # "done"}) <= 1

\* C4: every forwarded method is bound to the inner client, all to the same
\* instance, in every state
C4_AllMethodsOnInnerClient ==
    /\ _innerClient \in DOMAIN instances
    /\ ~instances[_innerClient].probe
    /\ \A m \in Methods : methods[m] = _innerClient

\* C4, its case: the inner client has been replaced
C4_Witness ==
    /\ _innerClient # 1
    /\ history.last.outcome = "swapped"
    /\ \A m \in Methods : methods[m] # 1

\* C5: no call of a forwarded method has gone to an instance that was not the
\* inner client at the moment of the call
C5_ForwardedToActive == ~history.misrouted

\* C5, its case: an operation is in flight on an inner client built from
\* discovered nodes while a cycle awaits an answer of the endpoint
C5_Witness ==
    /\ _innerClient # 1
    /\ instances[_innerClient].pending > 0
    /\ \E c \in DOMAIN cycles : cycles[c].pc \in {"version", "command"}

\* C6: an instance that is no probe is ended only by end(), and only when it
\* is the inner client at that moment; what is in flight on an instance is
\* cancelled by nothing else
C6_OnlyEndClosesActive ==
    [][\A i \in DOMAIN instances :
           ~instances[i].probe =>
               /\ instances'[i].endedBy # instances[i].endedBy =>
                      (i = _innerClient /\ instances'[i].endedBy = "end")
               /\ instances'[i].pending < instances[i].pending =>
                      \/ instances'[i].pending = instances[i].pending - 1
                      \/ (i = _innerClient /\ instances'[i].endedBy = "end")]_vars

\* C6, its case: end() has ended the inner client, and an instance it
\* replaced is open with its operation in flight
C6_Witness ==
    /\ history.ended
    /\ instances[_innerClient].endedBy = "end"
    /\ \E i \in DOMAIN instances :
           /\ ~instances[i].probe
           /\ i # _innerClient
           /\ instances[i].endedBy = "none"
           /\ instances[i].pending > 0

\* C7: with autoDiscover false there is no cycle, no timer, no probe and no
\* event of discovery, and the one instance ever constructed is that of the
\* location given to the constructor
C7_NoDiscoveryWhenDisabled ==
    ~options.autoDiscover =>
        /\ cycles = <<>>
        /\ _timer = "undefined"
        /\ ~intervalOn
        /\ Len(instances) = 1
        /\ ~instances[1].probe
        /\ instances[1].servers = <<_configEndpoint>>
        /\ _innerClient = 1

\* C7, its case: a client constructed with autoDiscover false has served a
\* call and has been ended
C7_Witness ==
    /\ ~options.autoDiscover
    /\ history.inputs > 0
    /\ history.ended

\* C8: no cycle has started after end() was called
C8_NoCycleAfterEnd == ~history.startedAfterEnd

\* C8, its case: end() was called with discovery enabled while a tick of the
\* interval was still to come
C8_Witness ==
    /\ options.autoDiscover
    /\ history.ended
    /\ history.ticks < MaxTicks
    /\ ~intervalOn

\* C9: in every state end() throws nothing, stops the interval and ends the
\* inner client, and a second end() right after it throws nothing and changes
\* nothing
C9_EndIdempotent ==
    LET once == End(EndState)
        twice == End(once)
    IN  /\ ~once.threw
        /\ ~once.intervalOn
        /\ once._innerClient \in DOMAIN once.instances
        /\ once.instances[once._innerClient].endedBy = "end"
        /\ ~twice.threw
        /\ twice = once

\* C9, its case: end() has been called while no cycle had completed
C9_Witness ==
    /\ history.ended
    /\ cycles # <<>>
    /\ \A c \in DOMAIN cycles : cycles[c].pc # "done"

\* C10: the payload of every autoDiscover emitted is in ascending order and
\* holds the locations of the entries of the second line of the response, and
\* when it was emitted the inner client had been built from that list and the
\* set of nodes was the set of its elements
C10_PayloadIsInstalledList ==
    \A k \in DOMAIN history.last.events :
        LET event == history.last.events[k]
            entries == Split(At(Split(history.last.data, LF), 1), SP)
        IN  event.name = "autoDiscover" =>
                /\ \A i \in DOMAIN event.payload : \A j \in DOMAIN event.payload :
                       i < j => ~StrLess(event.payload[j], event.payload[i])
                /\ NewSet(event.payload) =
                       {EntryLocation(entries[i]) : i \in DOMAIN entries}
                /\ Len(event.payload) = Len(entries)
                /\ event.servers = event.payload
                /\ event.nodeSet = NewSet(event.payload)

\* C10, its case: autoDiscover was emitted for a response that lists two
\* nodes in descending order
C10_Witness ==
    /\ history.last.data = ClusterResponse(<<"2">>, <<DUMMY_NODE2, DUMMY_NODE1>>)
    /\ history.last.events # <<>>
    /\ history.last.events[1].name = "autoDiscover"
    /\ history.last.events[1].payload =
           <<Location(DUMMY_NODE1), Location(DUMMY_NODE2)>>

\* C11 (as the spec has it): a cycle in which the constructor of the inner
\* client threw on the discovered nodes has changed neither the set of nodes
\* nor the inner client nor what is bound to it
C11_SwapErrorLeavesState ==
    LET cycle == history.last
    IN  (/\ cycle.response = "data"
         /\ ~ParsedResponses[cycle.data].threw
         /\ cycle.outcome = "failed"
         /\ cycle.events = <<AutoDiscoverFailure>>) =>
            cycle.touched = {}

\* C12: a cycle that failed has emitted autoDiscoverFailure once, as its last
\* event; nothing but end() stops the interval, and while the interval is on
\* its next tick starts a cycle, also after a cycle that failed
C12_FailureIsOneEventAndLoopGoesOn ==
    /\ history.last.outcome = "failed" =>
           /\ Cardinality({k \in DOMAIN history.last.events :
                              history.last.events[k] = AutoDiscoverFailure}) = 1
           /\ history.last.events[Len(history.last.events)] = AutoDiscoverFailure
    /\ (options.autoDiscover /\ ~history.ended) => intervalOn
    /\ (intervalOn /\ history.ticks < MaxTicks) => ENABLED Tick

\* C12, its case: the cycle the constructor started has failed on an
\* exception thrown by a listener of autoDiscover, and the tick of the
\* interval is still to come
C12_Witness ==
    /\ history.last.outcome = "failed"
    /\ Len(history.last.events) = 2
    /\ \A c \in DOMAIN cycles : cycles[c].pc = "done"
    /\ history.ticks < MaxTicks
    /\ intervalOn

C14_RemovedNodeNeverReadded ==
    ~options.autoDiscoverOverridesRemove => ~history.last.readded

\* C15: every event the inner client of the moment raises reaches the
\* listeners of the client with the name and the argument it was raised with,
\* for the inner client the constructor has created and for every one a cycle
\* has created: the emit of the inner client is the emit of the client
C15_EventsPassThrough ==
    /\ _innerClient \in DOMAIN instances => instances[_innerClient].emit = "client"
    /\ history.event.active =>
           history.event.received = <<history.event.name, history.event.details>>

\* C15, its case: a cycle has replaced the inner client, and the new inner
\* client has raised issue
C15_Witness ==
    /\ history.last.outcome = "swapped"
    /\ _innerClient > 1
    /\ history.event.active
    /\ history.event.name = "issue"
    /\ history.event.details \in NewSet(instances[_innerClient].servers)
    /\ history.event.details \notin NewSet(instances[1].servers)

\* C18: with autoDiscover, when the constructor returns and for as long as no
\* cycle has ended, the inner client is the one the constructor has built on
\* the configuration endpoint alone, the first cycle is under way with its
\* own probe, the set of nodes is empty and no autoDiscover and no
\* autoDiscoverFailure has been emitted
C18_ConstructorDoesNotWait ==
    (options.autoDiscover /\ \A c \in DOMAIN cycles : cycles[c].pc # "done") =>
        /\ cycles # <<>>
        /\ cycles[1].pc \in {"version", "command"}
        /\ cycles[1].configClient \in DOMAIN instances
        /\ cycles[1].configClient # _innerClient
        /\ _innerClient = 1
        /\ instances[_innerClient].servers = <<_configEndpoint>>
        /\ ~instances[_innerClient].probe
        /\ _nodeSet = {}
        /\ history.last = NoCycle

\* C18, its case: the constructor has just returned with autoDiscover, the
\* endpoint has answered nothing yet
C18_Witness ==
    /\ options.autoDiscover
    /\ Len(cycles) = 1
    /\ cycles[1].pc = "version"
    /\ Len(instances) = 2
    /\ instances[_innerClient].endedBy = "none"
    /\ history.ticks = 0
    /\ history.inputs = 0
    /\ intervalOn

\* C19 (as the spec has it): with autoDiscover and no end(), once a cycle
\* has ended well on a response, the inner client is the one built on the
\* sorted nodes of that response, and every further cycle that ends well on
\* the same nodes leaves it so
C19_ConvergesToDiscovered ==
    (/\ options.autoDiscover
     /\ ~history.ended
     /\ history.last.outcome \in {"swapped", "unchanged"}) =>
        instances[_innerClient].servers = ParsedResponses[history.last.data].nodes

\* C16: for every version of three non-negative integers the command
\* selected is "config get cluster" when major > 1, or major = 1 and
\* minor > 4, or major = 1, minor = 4 and bugfix >= 14, and
\* "get AmazonElastiCache:cluster" otherwise
C16_CommandFollowsThreshold ==
    result # <<>> =>
        result[1] = IF \/ argument.major > 1
                       \/ (argument.major = 1 /\ argument.minor > 4)
                       \/ (argument.major = 1 /\ argument.minor = 4
                           /\ argument.bugfix >= 14)
                    THEN "config get cluster"
                    ELSE "get AmazonElastiCache:cluster"

\* C16, its case: the command has been selected for version 1.4.14, the
\* first one of the new command
C16_Witness ==
    /\ argument = [major |-> 1, minor |-> 4, bugfix |-> 14]
    /\ result = <<"config get cluster">>

\* how many times x is in the sequence s
C17_Count(s, x) == Cardinality({i \in DOMAIN s : s[i] = x})

\* C17: for a well-formed response, _parseNodes returns one hostname:port
\* for every node of the second line, without the address, in ascending
\* order of the strings; the list depends on the nodes of the response only,
\* not on their order: every response with the same nodes in another order
\* gives the same list
C17_ParsedListIsSortedLocations ==
    result # <<>> =>
        LET nodes == result[1].nodes
            sent == argument.nodes
        IN  /\ ~result[1].threw
            /\ Len(nodes) = Len(sent)
            /\ \A n \in NodePool :
                   C17_Count(nodes, n.hostname \o <<":">> \o n.port)
                       = C17_Count([i \in DOMAIN sent |->
                                       sent[i].hostname \o <<":">> \o sent[i].port],
                                   n.hostname \o <<":">> \o n.port)
            /\ \A i \in 1..(Len(nodes) - 1) : ~StrLess(nodes[i + 1], nodes[i])
            /\ \A other \in NodeLists :
                   (/\ Len(other) = Len(sent)
                    /\ \A n \in NodePool : C17_Count(other, n) = C17_Count(sent, n)) =>
                       _parseNodes(ClusterResponse(argument.version, other)).nodes = nodes

\* C17, its case: a response of three nodes that are not in ascending order
\* has been parsed
C17_Witness ==
    /\ result # <<>>
    /\ Len(argument.nodes) = 3
    /\ argument.nodes[1] = DUMMY_NODE2
    /\ argument.nodes[2].hostname = <<"a", "b">>
    /\ argument.nodes[3] = DUMMY_NODE1
    /\ result[1].nodes = << <<"a", ":", "7">>, <<"a", "b", ":", "7">>, <<"b", ":", "7">> >>

\* C20 (as the tests have it): a cycle that ends well on a response whose
\* configuration version is not greater than that of the response the cycle
\* before it has applied builds no inner client and emits no autoDiscover,
\* whatever its nodes are
C20_OlderConfigurationIsIgnored ==
    history.last.notNewer =>
        /\ history.last.outcome # "swapped"
        /\ \A k \in DOMAIN history.last.events :
               history.last.events[k] = AutoDiscoverFailure

C22_MalformedResponses ==
    {data \in Responses :
        LET lines == Split(data, LF)
        IN  /\ At(lines, 1) # Undefined
            /\ \E k \in DOMAIN Split(At(lines, 1), SP) :
                   Len(Split(Split(At(lines, 1), SP)[k], PIPE)) # 3}

\* C22 (as the spec has it): a cycle whose response has an entry that does
\* not split into exactly three fields fails: it emits autoDiscoverFailure
\* and nothing else, and leaves the set of nodes, the inner client, the bound
\* methods and the instances as they were
C22_MalformedEntryFailsCycle ==
    LET cycle == history.last
    IN  (cycle.response = "data" /\ cycle.data \in C22_MalformedResponses) =>
            /\ cycle.outcome = "failed"
            /\ cycle.events = <<AutoDiscoverFailure>>
            /\ cycle.touched = {}

\* C23 (as the spec has it): when a field of the version record is not a
\* number, the handler of version() selects no command: it fails
C23_NonNumericVersionFails ==
    (/\ result # <<>>
     /\ \E f \in {argument.major, argument.minor, argument.bugfix} :
            f = Undefined \/ \E k \in DOMAIN f : ~IsDigit(f[k])) =>
        result[1] \notin {GET_CLUSTER_COMMAND_OLD, GET_CLUSTER_COMMAND_NEW}

\* a step in which a cycle has ended on a response whose nodes differ from
\* the set of nodes, and has put the set of these nodes in its place
C24_SetByCycle ==
    /\ cycles' # cycles
    /\ history'.last.response = "data"
    /\ history'.last.differed
    /\ _nodeSet' = NewSet(ParsedResponses[history'.last.data].nodes)

C25_ClosedAfterEnd ==
    history.ended =>
        /\ _innerClient \in DOMAIN instances
        /\ instances[_innerClient].endedBy # "none"

\* C26 (as stated): when the cycle started first ends after a cycle started
\* later than it has ended well, it does not put its own result in the place
\* of that one: it leaves the set of nodes, the inner client and the bound
\* methods as they are
C26_EarlierCycleDoesNotOverwrite ==
    [][(/\ 1 \in DOMAIN cycles
        /\ cycles[1].pc = "command"
        /\ cycles'[1].pc = "done"
        /\ history.last.outcome \in {"swapped", "unchanged"}) =>
           UNCHANGED <<_nodeSet, _innerClient, methods>>]_vars

\* C27 (as stated): the cycle that ended last has not emitted both
\* autoDiscover and autoDiscoverFailure, and if it has emitted
\* autoDiscoverFailure its last step has left the set of nodes, the inner
\* client, the bound methods and the instances as they were
C27_OneEventAndFailureLeavesState ==
    LET events == history.last.events
        names == {events[k].name : k \in DOMAIN events}
    IN  /\ ~({"autoDiscover", "autoDiscoverFailure"} \subseteq names)
        /\ "autoDiscoverFailure" \in names => history.last.touched = {}

\* C28 (as stated): the set of nodes is empty or holds only servers the
\* inner client of the moment was constructed with, and all of them when
\* autoDiscoverOverridesRemove is disabled
C28_SnapshotWithinActiveServers ==
    \/ _nodeSet = {}
    \/ /\ _innerClient \in DOMAIN instances
       /\ _nodeSet \subseteq NewSet(instances[_innerClient].servers)
       /\ ~options.autoDiscoverOverridesRemove =>
              _nodeSet = NewSet(instances[_innerClient].servers)

\* C29 (as stated): the first cycle of a client that ends well, whether no
\* cycle has ended before it or one has and failed, builds a new inner
\* client and emits autoDiscover, whatever nodes it has found
C29_FirstSuccessAlwaysSwaps ==
    [][(/\ \E c \in DOMAIN cycles : cycles[c].pc # "done" /\ cycles'[c].pc = "done"
        /\ history'.last.outcome \in {"swapped", "unchanged"}
        /\ \/ \A c \in DOMAIN cycles : cycles[c].pc # "done"
           \/ /\ Cardinality({c \in DOMAIN cycles : cycles[c].pc = "done"}) = 1
              /\ history.last.outcome = "failed") =>
           /\ history'.last.outcome = "swapped"
           /\ _innerClient' # _innerClient
           /\ Len(history'.last.events) = 1
           /\ history'.last.events[1].name = "autoDiscover"]_vars

====
